---------------------------- MODULE Spec2Model ----------------------------
(***************************************************************************)
(* Model of the OpenAQ extraction scripts:                                 *)
(*   OPENAQ/extract_1000_daily_la.py      (daily fetcher and pipeline)     *)
(*   OPENAQ/extract_1000_points_la_v2.py  (sub-daily fetcher and pipeline) *)
(*   OPENAQ/no2/create_daily_no2.py       (hourly -> daily aggregation)    *)
(*                                                                         *)
(* Instants are whole hours counted from an epoch; a calendar date is the  *)
(* number of whole days since the epoch.  Values are non-negative integers *)
(* (the fetchers) or integers counting 1/10000 of a unit (the aggregator). *)
(***************************************************************************)
EXTENDS Integers, Sequences, FiniteSets, TLC

VARIABLES
    variant,            \* which script: "daily" or "subdaily"
    parameter_name,     \* argument of the fetcher
    target_points,      \* argument of the fetcher
    all_measurements,   \* the fetcher's accumulator
    page,               \* the fetcher's page counter
    requests,           \* number of session.get calls issued by this fetch
    seen,               \* number of records with instant and value present, over the pages fetched
    stop,               \* how the fetch ended: "none" while looping
    df,                 \* the DataFrame the fetcher returned
    end_date,           \* the clock reading taken before the loop
    params,             \* the params of the last session.get
    got,                \* the number of results of the last response, None when the request raised
    raw,                \* the raw record handed to the record step (record specification)
    ppc,                \* position in the pipeline function
    df_no2,             \* the NO2 Series
    df_o3,              \* the O3 Series
    df_hcho,            \* the HCHO Series (sub-daily script only)
    aligned,            \* df_combined as it was before the limit step
    df_combined,        \* the combined table
    csv,                \* the table written by to_csv
    fetched,            \* how each fetch of the pipeline left its loop, in call order
    apc,                \* position in create_daily_no2
    hourly,             \* the table read by create_daily_no2
    daily_df            \* the table create_daily_no2 writes

fetchVars == <<variant, parameter_name, target_points, all_measurements, page,
               requests, seen, stop, df, end_date, params, got>>

pipeVars == <<ppc, df_no2, df_o3, df_hcho, aligned, df_combined, csv, fetched>>

aggVars == <<apc, hourly, daily_df>>

vars == <<fetchVars, raw, pipeVars, aggVars>>

-----------------------------------------------------------------------------
(* Bounds of the model *)

MaxTarget == 2      \* target_points ranges over 1..MaxTarget
MaxPageLen == 2     \* a page holds at most this many records
MaxSourceLen == 3   \* a source of the pipeline serves at most this many records
MaxRows == 3        \* the table create_daily_no2 reads has at most this many rows
ScaledTarget == 2   \* stands for the 1000 (daily) and 10000 (sub-daily) of the pipelines

(* Program constants *)

MaxPages == 50      \* if page > 50: break
DailyWindowDays == 1100
SubdailyWindowDays == 730
DailyPageLimit == 1000
SubdailyPageLimit == 10000
HoursPerDay == 24   \* .date() truncates an instant to its calendar date
NO2Factor == 1880
O3Factor == 1960
HCHOFactor == 1230
RoundStep == 10     \* round(3): values count 1/10000, three decimals are multiples of 10

None == -1          \* Python None: a key missing from a record
NaN == -2           \* np.nan: an absent cell

-----------------------------------------------------------------------------
(* Strings *)

\* str.lower() on the strings the model uses
Lower(s) ==
    CASE s = "PPM" -> "ppm"
      [] s = "Ppm" -> "ppm"
      [] s = "PPB" -> "ppb"
      [] s = "NO2" -> "no2"
      [] s = "No2" -> "no2"
      [] s = "O3" -> "o3"
      [] s = "HCHO" -> "hcho"
      [] OTHER -> s

NoUnits == "<missing>"   \* the record has no parameter.units key

\* record.get("parameter", {}).get("units", "unknown")
GetUnits(record) == IF record.units = NoUnits THEN "unknown" ELSE record.units

-----------------------------------------------------------------------------
(* Per-record processing of the fetchers *)

\* pd.to_datetime(timestamp_str).date() in the daily script, pd.to_datetime(timestamp_str) in the sub-daily one
ToTimestamp(v, utc) == IF v = "daily" THEN utc \div HoursPerDay ELSE utc

\* the conversion with the unit compared case-sensitively
ConvertValue_CaseSensitive(v, name, unit, value) ==
    IF unit = "ppm"
    THEN IF Lower(name) = "no2" THEN value * NO2Factor
         ELSE IF Lower(name) = "o3" THEN value * O3Factor
         ELSE IF v = "subdaily" /\ Lower(name) = "hcho" THEN value * HCHOFactor
         ELSE value
    ELSE value

\* the unit conversion, inline in both fetch loops
ConvertValue(v, name, unit, value) ==
    IF Lower(unit) = "ppm"
    THEN IF Lower(name) = "no2" THEN value * NO2Factor
         ELSE IF Lower(name) = "o3" THEN value * O3Factor
         ELSE IF v = "subdaily" /\ Lower(name) = "hcho" THEN value * HCHOFactor
         ELSE value
    ELSE value

\* `if not timestamp_str: continue`
TimestampMissing(record) == record.utc = None

\* `if value is not None:`
ValuePresent(record) == record.value # None

\* one iteration of `for record in results`: the accumulator after the record
ProcessRecord(v, name, acc, record) ==
    IF TimestampMissing(record) THEN acc
    ELSE IF ValuePresent(record)
         THEN Append(acc, [timestamp |-> ToTimestamp(v, record.utc),
                           value |-> ConvertValue(v, name, GetUnits(record), record.value)])
         ELSE acc

\* the whole `for record in results` loop
RECURSIVE ProcessResults(_, _, _, _)
ProcessResults(v, name, acc, results) ==
    IF results = <<>> THEN acc
    ELSE ProcessResults(v, name, ProcessRecord(v, name, acc, Head(results)), Tail(results))

-----------------------------------------------------------------------------
(* DataFrame operations *)

Min(a, b) == IF a < b THEN a ELSE b

\* df.tail(n).reset_index(drop=True)
TailRows(rows, n) ==
    IF Len(rows) > n THEN SubSeq(rows, Len(rows) - n + 1, Len(rows)) ELSE rows

\* all orders of the row indices I that are ascending in timestamp
RECURSIVE AscendingOrders(_, _)
AscendingOrders(rows, I) ==
    IF I = {} THEN {<<>>}
    ELSE LET least == {i \in I : \A j \in I : rows[i].timestamp <= rows[j].timestamp}
         IN UNION {{<<i>> \o o : o \in AscendingOrders(rows, I \ {i})} : i \in least}

\* the frame left in accumulation order
SortValues_Unsorted(rows) == {rows}

\* df.sort_values(key).reset_index(drop=True): the default sort is not stable,
\* so rows of equal key come out in any order
SortValues(rows) ==
    {[k \in 1..Len(rows) |-> rows[o[k]]] : o \in AscendingOrders(rows, 1..Len(rows))}

\* the limit keeping the leading rows, as df.head(target_points) would
LimitToTarget_KeepsHead(rows, target) ==
    IF Len(rows) > target THEN SubSeq(rows, 1, target) ELSE rows

\* `if len(df) > target_points: df = df.tail(target_points)`
LimitToTarget(rows, target) == IF Len(rows) > target THEN TailRows(rows, target) ELSE rows

\* the tail of the fetcher after the loop: the DataFrames it can return
BuildFrame(acc, target) ==
    IF Len(acc) > 0 THEN {LimitToTarget(s, target) : s \in SortValues(acc)} ELSE {<<>>}

\* `except Exception as e: return pd.DataFrame(columns=[...])`
ErrorFrame(acc) == <<>>

-----------------------------------------------------------------------------
(* The source: what one page request can return *)

\* a raw record of the source: period.datetimeFrom.utc, value, parameter.units
Raw(utc, value, units) == [utc |-> utc, value |-> value, units |-> units]

NoRecord == Raw(None, None, NoUnits)

\* the records a page is made of: two at one instant, two on one date, one on
\* the next date, a zero value, one without instant, one without value
RawRecords ==
    { Raw(0, 0, "ppm"), Raw(0, 1, "ppm"), Raw(14, 1, "ug/m3"), Raw(24, 0, "ug/m3"),
      Raw(None, 1, "ppm"), Raw(14, None, "ug/m3") }

\* sequences over S of length 0..n
RECURSIVE SeqsUpTo(_, _)
SeqsUpTo(S, n) ==
    IF n = 0 THEN {<<>>}
    ELSE LET shorter == SeqsUpTo(S, n - 1)
         IN shorter \cup {Append(s, x) : s \in {t \in shorter : Len(t) = n - 1}, x \in S}

NonEmptyPages == SeqsUpTo(RawRecords, MaxPageLen) \ {<<>>}

WellFormed(record) == record.utc # None /\ record.value # None

CountWellFormed(results) == Cardinality({i \in 1..Len(results) : WellFormed(results[i])})

-----------------------------------------------------------------------------
(* The fetch loop: extract_daily_measurements_from_sensor and              *)
(* extract_measurements_from_sensor.  One action is one iteration of the   *)
(* while loop; an iteration that leaves the loop also builds and returns   *)
(* the DataFrame.                                                          *)

\* the ceiling test off by one page
CeilingReached_OffByOne(p) == p > MaxPages + 1

\* `if page > 50`, evaluated after page += 1
CeilingReached(p) == p > MaxPages

\* the loop body without the break on a page without results
LoopBody_NoBreakOnEmpty(v, name, target, acc, p, response) ==
    IF ~response.ok THEN [acc |-> acc, page |-> p, stop |-> "error"]
    ELSE LET acc2 == ProcessResults(v, name, acc, response.results) IN
         IF Len(acc2) >= target THEN [acc |-> acc2, page |-> p, stop |-> "target"]
         ELSE IF CeilingReached(p + 1) THEN [acc |-> acc2, page |-> p + 1, stop |-> "ceiling"]
         ELSE [acc |-> acc2, page |-> p + 1, stop |-> "none"]

\* the body of the while loop on the response to the request for page p:
\* the accumulator, the page counter and how the loop goes on
LoopBody(v, name, target, acc, p, response) ==
    IF ~response.ok THEN [acc |-> acc, page |-> p, stop |-> "error"]
    ELSE IF response.results = <<>> THEN [acc |-> acc, page |-> p, stop |-> "empty"]
    ELSE LET acc2 == ProcessResults(v, name, acc, response.results) IN
         IF Len(acc2) >= target THEN [acc |-> acc2, page |-> p, stop |-> "target"]
         ELSE IF CeilingReached(p + 1) THEN [acc |-> acc2, page |-> p + 1, stop |-> "ceiling"]
         ELSE [acc |-> acc2, page |-> p + 1, stop |-> "none"]

\* what the fetcher returns once the loop is left: the frame built after the
\* loop, or the frame of the except clause
ReturnedFrames(st, target) ==
    IF st.stop = "error" THEN {ErrorFrame(st.acc)} ELSE BuildFrame(st.acc, target)

\* datetime.utcnow(): the clock counts hours and a request takes one of them
UtcNow(issued) == issued

\* start_date = end_date - timedelta(days=1100), 730 in the sub-daily script
StartDate(v, end) ==
    end - HoursPerDay * (IF v = "daily" THEN DailyWindowDays ELSE SubdailyWindowDays)

\* the params of the request for page p
Params(v, p, end) ==
    [datetime_from |-> StartDate(v, end),
     datetime_to |-> end,
     limit |-> IF v = "daily" THEN DailyPageLimit ELSE SubdailyPageLimit,
     page |-> p]

NoParams == [datetime_from |-> 0, datetime_to |-> 0, limit |-> 0, page |-> 0]

\* the loop has not been entered: end_date is read, no request is issued
NoRequestYet ==
    /\ end_date = UtcNow(0)
    /\ params = NoParams
    /\ got = None

\* no file yet: a table of one row that is no row of a table
NotWritten == <<[written |-> FALSE]>>

\* neither the pipeline function nor create_daily_no2 has been entered
PipelineIdle ==
    /\ ppc = "idle"
    /\ df_no2 = <<>>
    /\ df_o3 = <<>>
    /\ df_hcho = <<>>
    /\ aligned = <<>>
    /\ df_combined = <<>>
    /\ csv = NotWritten
    /\ fetched = <<>>
    /\ apc = "idle"
    /\ hourly = <<>>
    /\ daily_df = <<>>

FetchInit ==
    /\ variant \in {"daily", "subdaily"}
    /\ parameter_name \in {"no2"}
    /\ target_points \in 1..MaxTarget
    /\ all_measurements = <<>>
    /\ page = 1
    /\ requests = 0
    /\ seen = 0
    /\ stop = "none"
    /\ df = <<>>
    /\ NoRequestYet
    /\ raw = NoRecord
    /\ PipelineIdle

\* the while condition holds and the loop has not been left
Looping == stop = "none" /\ Len(all_measurements) < target_points

\* one iteration of the while loop, given the response to the page request
Iterate(response) ==
    LET st == LoopBody(variant, parameter_name, target_points,
                       all_measurements, page, response)
    IN /\ all_measurements' = st.acc
       /\ page' = st.page
       /\ stop' = st.stop
       /\ df' \in IF st.stop = "none" THEN {df} ELSE ReturnedFrames(st, target_points)
       /\ requests' = requests + 1
       /\ seen' = seen + CountWellFormed(response.results)

\* session.get raises, or raise_for_status() raises
RequestFails ==
    /\ Looping
    /\ Iterate([ok |-> FALSE, results |-> <<>>])
    /\ UNCHANGED <<variant, parameter_name, target_points, end_date, params, got, raw, pipeVars, aggVars>>

\* the page has no results
PageEmpty ==
    /\ Looping
    /\ Iterate([ok |-> TRUE, results |-> <<>>])
    /\ UNCHANGED <<variant, parameter_name, target_points, end_date, params, got, raw, pipeVars, aggVars>>

\* the page has results
PageData ==
    /\ Looping
    /\ \E results \in NonEmptyPages : Iterate([ok |-> TRUE, results |-> results])
    /\ UNCHANGED <<variant, parameter_name, target_points, end_date, params, got, raw, pipeVars, aggVars>>

FetchNext == RequestFails \/ PageEmpty \/ PageData

Spec == FetchInit /\ [][FetchNext]_vars

-----------------------------------------------------------------------------
(* The record step alone: one record, of any unit and pollutant, goes      *)
(* through the body of `for record in results` of either fetcher.          *)

ParameterNames == {"no2", "NO2", "No2", "o3", "O3", "hcho", "HCHO", "so2"}
UnitStrings == {"ppm", "PPM", "Ppm", "ppb", "ug/m3", "unknown", NoUnits}
AnyRecords == [utc : {None, 14}, value : {None, 0, 1, 3}, units : UnitStrings]

RecordInit ==
    /\ variant \in {"daily", "subdaily"}
    /\ parameter_name \in ParameterNames
    /\ raw \in AnyRecords
    /\ target_points = 1
    /\ all_measurements = <<>>
    /\ page = 1
    /\ requests = 0
    /\ seen = 0
    /\ stop = "none"
    /\ df = <<>>
    /\ NoRequestYet
    /\ PipelineIdle

\* the body of `for record in results` on raw
AccumulateRecord ==
    /\ stop = "none"
    /\ all_measurements' = ProcessRecord(variant, parameter_name, all_measurements, raw)
    /\ seen' = seen + CountWellFormed(<<raw>>)
    /\ stop' = "record"
    /\ UNCHANGED <<variant, parameter_name, target_points, page, requests, df, end_date, params, got,
                   raw, pipeVars, aggVars>>

RecordNext == AccumulateRecord

SpecRecord == RecordInit /\ [][RecordNext]_vars

-----------------------------------------------------------------------------
(* A whole fetch, as the pipeline functions call it.  A source holds the   *)
(* records it serves, the number of records it puts on a page, and what it *)
(* does once they are served: "empty" (an empty page), "fail" (the request *)
(* raises) or "junk" (pages of one record without instant, for ever).      *)

\* the records a source of the pipeline serves: a zero value, three instants
\* on two dates, one record without instant; a record may be served twice
SourceRecords ==
    { Raw(0, 0, "ppm"), Raw(14, 1, "ppm"), Raw(24, 1, "ug/m3"), Raw(None, 1, "ppm") }

Sources ==
    [records : SeqsUpTo(SourceRecords, MaxSourceLen),
     page_size : 1..MaxPageLen,
     rest : {"empty", "fail", "junk"}]

\* the response of the source to the request for page p
Response(source, p) ==
    LET first == (p - 1) * source.page_size + 1
        last == Min(p * source.page_size, Len(source.records))
    IN IF first <= last THEN [ok |-> TRUE, results |-> SubSeq(source.records, first, last)]
       ELSE IF source.rest = "junk" THEN [ok |-> TRUE, results |-> <<Raw(None, 1, "ppm")>>]
       ELSE [ok |-> source.rest # "fail", results |-> <<>>]

\* `while len(all_measurements) < target_points:` run to its end
RECURSIVE RunLoop(_, _, _, _, _)
RunLoop(v, name, target, st, source) ==
    IF st.stop # "none" \/ ~(Len(st.acc) < target) THEN st
    ELSE RunLoop(v, name, target,
                 LoopBody(v, name, target, st.acc, st.page, Response(source, st.page)),
                 source)

\* how a call of the fetcher on a source leaves its loop
FinalState(v, name, target, source) ==
    RunLoop(v, name, target, [acc |-> <<>>, page |-> 1, stop |-> "none"], source)

\* extract_daily_measurements_from_sensor / extract_measurements_from_sensor:
\* the DataFrames a call can return
ExtractMeasurements(v, name, target, source) ==
    ReturnedFrames(FinalState(v, name, target, source), target)

\* the fetcher without its except clause: what a request raises leaves the call
Raises_Uncaught(st) == st.stop = "error"

\* whether an exception leaves the call: the try block holds the whole loop
\* and the frame building, and `except Exception` returns a frame
Raises(st) == FALSE

-----------------------------------------------------------------------------
(* The fetch loop together with the requests it sends.  The actions are    *)
(* the iterations of the fetch loop; each also records the params of its   *)
(* session.get and the size of the page that came back.                    *)

\* the pages a request can bring
RequestPages == SeqsUpTo(SourceRecords, MaxPageLen) \ {<<>>}

\* session.get(url, params=params, timeout=30) and what it brought
Sent(response) ==
    /\ params' = Params(variant, page, end_date)
    /\ got' = IF response.ok THEN Len(response.results) ELSE None

\* the request raises
GetFails ==
    /\ Looping
    /\ Sent([ok |-> FALSE, results |-> <<>>])
    /\ Iterate([ok |-> FALSE, results |-> <<>>])
    /\ UNCHANGED <<variant, parameter_name, target_points, end_date, raw, pipeVars, aggVars>>

\* the request brings a page without results
GetEmpty ==
    /\ Looping
    /\ Sent([ok |-> TRUE, results |-> <<>>])
    /\ Iterate([ok |-> TRUE, results |-> <<>>])
    /\ UNCHANGED <<variant, parameter_name, target_points, end_date, raw, pipeVars, aggVars>>

\* the request brings a page with results
GetData ==
    /\ Looping
    /\ \E results \in RequestPages :
          /\ Sent([ok |-> TRUE, results |-> results])
          /\ Iterate([ok |-> TRUE, results |-> results])
    /\ UNCHANGED <<variant, parameter_name, target_points, end_date, raw, pipeVars, aggVars>>

RequestsNext == GetFails \/ GetEmpty \/ GetData

SpecRequests == FetchInit /\ [][RequestsNext]_vars

-----------------------------------------------------------------------------
(* The pipeline functions: extract_1000_daily_points_los_angeles and       *)
(* extract_1000_points_los_angeles.  A row of the combined table is a      *)
(* function of its column names.                                           *)

HCHO_SENSOR == None

Timestamps(frame) == {frame[i].timestamp : i \in 1..Len(frame)}

\* sorted(list(S)) for a set of timestamps
RECURSIVE SortedList(_)
SortedList(S) ==
    IF S = {} THEN <<>>
    ELSE LET least == CHOOSE x \in S : \A y \in S : x <= y
         IN <<least>> \o SortedList(S \ {least})

\* the union of the timestamps of the Series that are not empty
AllTimestamps(frames) ==
    UNION {IF Len(frames[k]) > 0 THEN Timestamps(frames[k]) ELSE {} : k \in 1..Len(frames)}

\* pd.DataFrame({"timestamp": sorted(list(all_timestamps))})
BaseFrame(frames) ==
    LET keys == SortedList(AllTimestamps(frames))
    IN [i \in 1..Len(keys) |-> [timestamp |-> keys[i]]]

\* the merge filling a missing cell with zero
RECURSIVE MergeLeft_ZeroFill(_, _, _)
MergeLeft_ZeroFill(left, right, col) ==
    IF left = <<>> THEN <<>>
    ELSE LET row == Head(left)
             SameKey(m) == m.timestamp = row.timestamp
             matches == SelectSeq(right, SameKey)
             out == IF matches = <<>>
                    THEN <<row @@ (col :> 0)>>
                    ELSE [k \in 1..Len(matches) |-> row @@ (col :> matches[k].value)]
         IN out \o MergeLeft_ZeroFill(Tail(left), right, col)

\* left.merge(right, on="timestamp", how="left"), right's value column named col:
\* left's order is kept, a left row comes out once per right row of its key,
\* and once with NaN when right has none
RECURSIVE MergeLeft(_, _, _)
MergeLeft(left, right, col) ==
    IF left = <<>> THEN <<>>
    ELSE LET row == Head(left)
             SameKey(m) == m.timestamp = row.timestamp
             matches == SelectSeq(right, SameKey)
             out == IF matches = <<>>
                    THEN <<row @@ (col :> NaN)>>
                    ELSE [k \in 1..Len(matches) |-> row @@ (col :> matches[k].value)]
         IN out \o MergeLeft(Tail(left), right, col)

\* df_combined[col] = np.nan
NaNColumn(table, col) == [i \in 1..Len(table) |-> table[i] @@ (col :> NaN)]

\* `if len(df_x) > 0: merge ... else: df_combined[col] = np.nan`
AddColumn(table, frame, col) ==
    IF Len(frame) > 0 THEN MergeLeft(table, frame, col) ELSE NaNColumn(table, col)

\* the combine step
CombineFrames(v, no2, o3, hcho) ==
    LET frames == IF v = "subdaily" THEN <<no2, o3, hcho>> ELSE <<no2, o3>>
        with_no2 == AddColumn(BaseFrame(frames), no2, "no2_ug_m3")
        with_o3 == AddColumn(with_no2, o3, "o3_ug_m3")
    IN IF v = "subdaily" THEN AddColumn(with_o3, hcho, "hcho_ug_m3") ELSE with_o3

\* `if len(df_combined) > 1000: df_combined = df_combined.tail(1000)` (10000 sub-daily)
LimitTable(table, limit) == IF Len(table) > limit THEN TailRows(table, limit) ELSE table

PipelineInit ==
    /\ variant \in {"daily", "subdaily"}
    /\ parameter_name = "no2"
    /\ target_points = 1
    /\ all_measurements = <<>>
    /\ page = 1
    /\ requests = 0
    /\ seen = 0
    /\ stop = "none"
    /\ df = <<>>
    /\ NoRequestYet
    /\ raw = NoRecord
    /\ ppc = "main"
    /\ df_no2 = <<>>
    /\ df_o3 = <<>>
    /\ df_hcho = <<>>
    /\ aligned = <<>>
    /\ df_combined = <<>>
    /\ csv = NotWritten
    /\ fetched = <<>>
    /\ apc = "idle"
    /\ hourly = <<>>
    /\ daily_df = <<>>

\* os.getenv("OPENAQ_API_KEY", ""): unset, empty or set
ApiKeys == {"", "key"}

\* `if not API_KEY: exit(1)`, else the pipeline function is called
CheckCredential ==
    /\ ppc = "main"
    /\ \E API_KEY \in ApiKeys : ppc' = IF API_KEY = "" THEN "exit" ELSE "no2"
    /\ UNCHANGED <<fetchVars, raw, aggVars, df_no2, df_o3, df_hcho, aligned, df_combined, csv,
                   fetched>>

\* the NO2 fetch; an exception leaving the fetcher leaves the pipeline function too
FetchNO2 ==
    /\ ppc = "no2"
    /\ \E source \in Sources :
          \E st \in {FinalState(variant, "no2", ScaledTarget, source)} :
             /\ fetched' = Append(fetched, st.stop)
             /\ IF Raises(st)
                THEN df_no2' = df_no2 /\ ppc' = "aborted"
                ELSE df_no2' \in ReturnedFrames(st, ScaledTarget) /\ ppc' = "o3"
    /\ UNCHANGED <<fetchVars, raw, aggVars, df_o3, df_hcho, aligned, df_combined, csv>>

\* the O3 fetch, and `if HCHO_SENSOR:` of the sub-daily script, which has no HCHO sensor
FetchO3 ==
    /\ ppc = "o3"
    /\ \E source \in Sources :
          \E st \in {FinalState(variant, "o3", ScaledTarget, source)} :
             /\ fetched' = Append(fetched, st.stop)
             /\ IF Raises(st)
                THEN df_o3' = df_o3 /\ df_hcho' = df_hcho /\ ppc' = "aborted"
                ELSE /\ df_o3' \in ReturnedFrames(st, ScaledTarget)
                     /\ IF variant = "subdaily" /\ HCHO_SENSOR # None
                        THEN \E hcho \in Sources :
                                df_hcho' \in ExtractMeasurements(variant, "hcho", ScaledTarget, hcho)
                        ELSE df_hcho' = <<>>
                     /\ ppc' = "combine"
    /\ UNCHANGED <<fetchVars, raw, aggVars, df_no2, aligned, df_combined, csv>>

\* the combine step: union of the timestamps, then one left merge per Series
Combine ==
    /\ ppc = "combine"
    /\ df_combined' = CombineFrames(variant, df_no2, df_o3, df_hcho)
    /\ ppc' = "limit"
    /\ UNCHANGED <<fetchVars, raw, aggVars, df_no2, df_o3, df_hcho, aligned, csv, fetched>>

\* the limit step
Limit ==
    /\ ppc = "limit"
    /\ aligned' = df_combined
    /\ df_combined' = LimitTable(df_combined, ScaledTarget)
    /\ ppc' = "save"
    /\ UNCHANGED <<fetchVars, raw, aggVars, df_no2, df_o3, df_hcho, csv, fetched>>

\* df_combined.to_csv(output_csv, index=False)
Save ==
    /\ ppc = "save"
    /\ csv' = df_combined
    /\ ppc' = "done"
    /\ UNCHANGED <<fetchVars, raw, aggVars, df_no2, df_o3, df_hcho, aligned, df_combined,
                   fetched>>

PipelineNext == CheckCredential \/ FetchNO2 \/ FetchO3 \/ Combine \/ Limit \/ Save

SpecPipeline == PipelineInit /\ [][PipelineNext]_vars

-----------------------------------------------------------------------------
(* create_daily_no2: the aggregation of a timestamped NO2 table to daily   *)
(* means.  Values count 1/10000 of a unit; NaN is an empty cell.           *)

\* df["timestamp"].dt.date
DateOf(timestamp) == timestamp \div HoursPerDay

\* pd.to_datetime(date): the date at midnight
Midnight(date) == date * HoursPerDay

\* the no2_ug_m3 cells of the rows of a date that hold a value, in row order
GroupValues(rows, date) ==
    LET InGroup(r) == DateOf(r.timestamp) = date /\ r.no2_ug_m3 # NaN
        group == SelectSeq(rows, InGroup)
    IN [i \in 1..Len(group) |-> group[i].no2_ug_m3]

RECURSIVE SumSeq(_)
SumSeq(values) == IF values = <<>> THEN 0 ELSE Head(values) + SumSeq(Tail(values))

\* the quotient num/den rounded to a whole number, halves to the even one
RoundHalfEven(num, den) ==
    LET k == num \div den
        rem == num - k * den
    IN IF 2 * rem < den THEN k
       ELSE IF 2 * rem > den THEN k + 1
       ELSE IF k % 2 = 0 THEN k ELSE k + 1

\* the quotient cut to three decimals instead of rounded
Round3_Truncates(total, count) == RoundStep * (total \div (count * RoundStep))

\* .round(3) of the quotient total/count
Round3(total, count) == RoundStep * RoundHalfEven(total, count * RoundStep)

\* the sum of the group where the mean is meant
GroupMean_Sum(values) ==
    IF values = <<>> THEN NaN ELSE Round3(SumSeq(values), 1)

\* .agg({"no2_ug_m3": "mean"}) of one group, then .round(3): NaN cells are
\* skipped, and a group without any value has the mean NaN
GroupMean(values) ==
    IF values = <<>> THEN NaN ELSE Round3(SumSeq(values), Len(values))

\* groupby("date") ... reset_index(): one row per date, dates ascending
AggregateDaily(rows) ==
    LET dates == SortedList({DateOf(rows[i].timestamp) : i \in 1..Len(rows)})
    IN [k \in 1..Len(dates) |->
           [timestamp |-> Midnight(dates[k]),
            no2_ug_m3 |-> GroupMean(GroupValues(rows, dates[k]))]]

\* the rows pd.read_csv can deliver
HourlyRows == [timestamp : {2, 14, 26}, no2_ug_m3 : {NaN, 12345, 12346, 100000, 200000}]

AggregateInit ==
    /\ variant = "subdaily"
    /\ parameter_name = "no2"
    /\ target_points = 1
    /\ all_measurements = <<>>
    /\ page = 1
    /\ requests = 0
    /\ seen = 0
    /\ stop = "none"
    /\ df = <<>>
    /\ NoRequestYet
    /\ raw = NoRecord
    /\ ppc = "idle"
    /\ df_no2 = <<>>
    /\ df_o3 = <<>>
    /\ df_hcho = <<>>
    /\ aligned = <<>>
    /\ df_combined = <<>>
    /\ csv = NotWritten
    /\ fetched = <<>>
    /\ apc = "start"
    /\ hourly \in SeqsUpTo(HourlyRows, MaxRows)
    /\ daily_df = <<>>

\* `if not os.path.exists(hourly_file): return`
InputMissing ==
    /\ apc = "start"
    /\ apc' = "missing"
    /\ UNCHANGED <<fetchVars, raw, pipeVars, hourly, daily_df>>

\* read, group by date, mean, round, write
Aggregate ==
    /\ apc = "start"
    /\ daily_df' = AggregateDaily(hourly)
    /\ apc' = "done"
    /\ UNCHANGED <<fetchVars, raw, pipeVars, hourly>>

AggregateNext == InputMissing \/ Aggregate

SpecAggregate == AggregateInit /\ [][AggregateNext]_vars

-----------------------------------------------------------------------------
(* Properties of the fetch loop *)

Finished == stop # "none"

\* number of entries of seq equal to x
Count(seq, x) == Cardinality({i \in 1..Len(seq) : seq[i] = x})

\* the same entries with the same multiplicities
SameEntries(s, t) ==
    /\ Len(s) = Len(t)
    /\ \A i \in 1..Len(s) : Count(s, s[i]) = Count(t, s[i])

Ascending(rows) ==
    \A i \in 1..Len(rows) : \A j \in i..Len(rows) : rows[i].timestamp <= rows[j].timestamp

StrictlyAscending(rows) ==
    \A i \in 1..Len(rows) - 1 : rows[i].timestamp < rows[i + 1].timestamp

\* kept is a sub-multiset of acc, and nothing that acc holds beyond kept is
\* later than an entry of kept
TrailingOf(kept, acc) ==
    /\ \A i \in 1..Len(kept) : Count(kept, kept[i]) <= Count(acc, kept[i])
    /\ \A i \in 1..Len(acc) :
          Count(acc, acc[i]) > Count(kept, acc[i])
              => \A j \in 1..Len(kept) : acc[i].timestamp <= kept[j].timestamp

\* C1 (as claimed): a fetch that ends on a transport error returns the
\* Measurements accumulated from the pages fetched before it, sorted.
C1_AccumulatedReturnedOnError ==
    stop = "error" => /\ Len(df) = Min(Len(all_measurements), target_points)
                      /\ TrailingOf(df, all_measurements)

\* C2: a fetch that ends without a transport error returns min(n, target_points)
\* entries, n the number of well-formed records of the pages fetched, in
\* ascending timestamp order, and they are the latest of the accumulated ones.
C2_TrailingTrim ==
    stop \in {"empty", "target", "ceiling"} =>
        /\ Len(df) = Min(seen, target_points)
        /\ Ascending(df)
        /\ TrailingOf(df, all_measurements)

\* C2 witness: a finished failure-free fetch that dropped an earlier entry
C2_Witness ==
    /\ stop = "target"
    /\ Len(all_measurements) > target_points
    /\ Len(df) = target_points
    /\ \E i \in 1..Len(all_measurements) : all_measurements[i].timestamp < df[1].timestamp

\* C3: a fetch issues at most 50 page requests, whatever the source does, and
\* a fetch stopped by the page ceiling returns everything it accumulated.
C3_PageCeiling ==
    /\ requests <= MaxPages
    /\ stop = "none" => page <= MaxPages /\ requests = page - 1
    /\ stop = "ceiling" => /\ requests = MaxPages
                           /\ SameEntries(df, all_measurements)
                           /\ Ascending(df)

\* C3 witness: the ceiling stopped a fetch that had accumulated something
C3_Witness == stop = "ceiling" /\ requests = MaxPages /\ Len(df) > 0

\* C4 (as claimed): the returned Series is strictly ascending in timestamp.
C4_StrictlyAscending == Finished => StrictlyAscending(df)

\* C4 (amended): the returned Series is ascending in timestamp, entries of
\* equal timestamp all being kept.
C4_NonDecreasing == Finished => Ascending(df)

\* C4 witness: a returned Series holding two entries of one timestamp, from
\* accumulated entries that were not in order
C4_Witness ==
    /\ Finished
    /\ \E i \in 1..Len(df) - 1 : df[i].timestamp = df[i + 1].timestamp
    /\ ~Ascending(all_measurements)

-----------------------------------------------------------------------------
(* Properties of the record step *)

\* the unit is 'ppm' compared case-insensitively
IsPpm(unit) == unit \in {"ppm", "PPM", "Ppm"}

Pollutant(name) ==
    CASE name \in {"no2", "NO2", "No2"} -> "NO2"
      [] name \in {"o3", "O3"} -> "O3"
      [] name \in {"hcho", "HCHO"} -> "HCHO"
      [] OTHER -> "other"

\* the reference conversion of the claim
ReferenceValue(value, unit, pollutant) ==
    IF IsPpm(unit)
    THEN CASE pollutant = "NO2" -> value * 1880
           [] pollutant = "O3" -> value * 1960
           [] pollutant = "HCHO" -> value * 1230
           [] OTHER -> value
    ELSE value

Accumulated == stop = "record" /\ WellFormed(raw)

\* C7 (as claimed): in both fetchers the accumulated value is the reference
\* conversion, for NO2, O3 and HCHO.
C7_ReferenceInEveryFetcher ==
    Accumulated /\ Pollutant(parameter_name) \in {"NO2", "O3", "HCHO"} =>
        /\ Len(all_measurements) = 1
        /\ all_measurements[1].value
              = ReferenceValue(raw.value, raw.units, Pollutant(parameter_name))

\* C7 (amended): the sub-daily fetcher accumulates the reference conversion
\* for NO2, O3 and HCHO; the daily fetcher does so for NO2 and O3 and
\* accumulates an HCHO value unchanged whatever its unit.
C7_ReferencePerFetcher ==
    Accumulated /\ Pollutant(parameter_name) \in {"NO2", "O3", "HCHO"} =>
        /\ Len(all_measurements) = 1
        /\ all_measurements[1].value
              = IF variant = "daily" /\ Pollutant(parameter_name) = "HCHO"
                THEN raw.value
                ELSE ReferenceValue(raw.value, raw.units, Pollutant(parameter_name))

\* C7 witness: the daily fetcher converted an O3 value given in 'PPM'
C7_Witness ==
    /\ Accumulated
    /\ variant = "daily" /\ parameter_name = "O3"
    /\ raw.units = "PPM" /\ raw.value = 3
    /\ all_measurements = <<[timestamp |-> 0, value |-> 5880]>>

-----------------------------------------------------------------------------
(* Properties of the combine and limit steps *)

\* the Series handed to the combine step, and the column each one fills
InputSeries == IF variant = "subdaily" THEN <<df_no2, df_o3, df_hcho>> ELSE <<df_no2, df_o3>>
ColumnNames == <<"no2_ug_m3", "o3_ug_m3", "hcho_ug_m3">>

UnionTimestamps == UNION {Timestamps(InputSeries[k]) : k \in 1..Len(InputSeries)}

\* the values Series S holds at timestamp t
ValuesAt(S, t) == {S[j].value : j \in {j \in 1..Len(S) : S[j].timestamp = t}}

\* at "limit" the combine step has run and df_combined is the Aligned Table
Combined == ppc = "limit"

\* C5 (as claimed): the Aligned Table has exactly one row per timestamp of the
\* union of the input Series' timestamps, in ascending order.
C5_OneRowPerTimestamp ==
    Combined =>
        /\ Timestamps(df_combined) = UnionTimestamps
        /\ Len(df_combined) = Cardinality(UnionTimestamps)
        /\ StrictlyAscending(df_combined)

\* C6: in every row of the Aligned Table the cell of a Series' column holds a
\* value that Series has at the row's timestamp, and NaN when the Series has
\* none there; every entry of every Series is in some row.
C6_CellsJoinOnTimestamp ==
    Combined =>
        \A k \in 1..Len(InputSeries) :
            LET S == InputSeries[k]
                col == ColumnNames[k]
            IN /\ \A i \in 1..Len(df_combined) :
                      LET row == df_combined[i] IN
                      IF ValuesAt(S, row.timestamp) = {}
                      THEN row[col] = NaN
                      ELSE row[col] \in ValuesAt(S, row.timestamp)
               /\ \A j \in 1..Len(S) :
                      \E i \in 1..Len(df_combined) :
                          /\ df_combined[i].timestamp = S[j].timestamp
                          /\ df_combined[i][col] = S[j].value

\* C6 witness: a table with a row where NO2 is a recorded zero and O3 is
\* absent, and another row where both are present
C6_Witness ==
    /\ Combined
    /\ \E i \in 1..Len(df_combined) :
          df_combined[i]["no2_ug_m3"] = 0 /\ df_combined[i]["o3_ug_m3"] = NaN
    /\ \E i \in 1..Len(df_combined) :
          df_combined[i]["no2_ug_m3"] > 0 /\ df_combined[i]["o3_ug_m3"] > 0

Limited == ppc \in {"save", "done"}

\* C8 (as claimed): the limit step leaves a table of at most the target rows
\* unchanged, and otherwise keeps exactly its last target rows, each of them
\* later than every dropped row.
C8_LimitKeepsLatest ==
    Limited =>
        LET n == Len(aligned) IN
        /\ n <= ScaledTarget => df_combined = aligned
        /\ n > ScaledTarget =>
              /\ df_combined = SubSeq(aligned, n - ScaledTarget + 1, n)
              /\ \A i \in 1..(n - ScaledTarget) : \A j \in (n - ScaledTarget + 1)..n :
                    aligned[i].timestamp < aligned[j].timestamp

-----------------------------------------------------------------------------
(* Properties of the requests of one fetch *)

\* the step issues a request
Requesting == requests' = requests + 1

\* C12: the k-th request of a fetch asks for page k, every request carries
\* the time window of the request before it, and a request that is not the
\* first is issued only when the page before it had results and fewer than
\* target_points Measurements are accumulated once that page is processed.
C12_PageRequests ==
    [][Requesting =>
          /\ params'.page = requests + 1
          /\ requests > 0 =>
                /\ params'.datetime_from = params.datetime_from
                /\ params'.datetime_to = params.datetime_to
                /\ got # None /\ got > 0
                /\ Len(all_measurements) < target_points]_vars

\* C12 witness: pages 1 and 2 had results and left the accumulator short of
\* the target, page 3 was requested with the same window and came back empty
C12_Witness ==
    /\ requests = MaxTarget + 1
    /\ params = Params(variant, MaxTarget + 1, end_date)
    /\ got = 0
    /\ stop = "empty"
    /\ Len(all_measurements) = target_points - 1

-----------------------------------------------------------------------------
(* Properties of a whole pipeline run *)

\* to_csv has written the table
Exported == ppc = "done"

\* the Series the pipeline function asks a sensor for
FetchedNames == <<"no2", "o3">>

\* the columns of the exported table
ExportColumns == {"timestamp"} \cup {ColumnNames[k] : k \in 1..Len(InputSeries)}

AllSeriesEmpty == \A k \in 1..Len(InputSeries) : InputSeries[k] = <<>>

\* the steps of the pipeline function, in program order, up to the export
Steps == <<"no2", "o3", "combine", "limit", "save", "done">>

\* the pipeline function has been entered and has not exported yet
Running == \E k \in 1..(Len(Steps) - 1) : ppc = Steps[k]

\* the step that follows position pos in program order
Following(pos) == Steps[(CHOOSE k \in 1..(Len(Steps) - 1) : Steps[k] = pos) + 1]

\* the statement the run stands at can execute: a fetch whatever the fetches
\* before it returned, the limit step and the export whatever the table is
\* (the combine step has no condition but its place in the program)
CanStep ==
    /\ ppc = "no2" => ENABLED FetchNO2
    /\ ppc = "o3" => ENABLED FetchO3
    /\ ppc = "limit" => ENABLED Limit
    /\ ppc = "save" => ENABLED Save

\* C11: once the credential check has passed, the run never aborts, its next
\* step can always be taken and leads to the following step of the program,
\* up to the export, whatever way each fetch left its loop (request raised,
\* empty page, target, page ceiling); at the export every Series has been
\* fetched, the table written is the combined table with the named columns,
\* and it is the empty table when all Series are empty.
C11_AlwaysExports ==
    /\ [](/\ ppc # "aborted"
          /\ CanStep
          /\ Exported =>
                /\ Len(fetched) = Len(FetchedNames)
                /\ csv = df_combined
                /\ \A i \in 1..Len(csv) : DOMAIN csv[i] = ExportColumns
                /\ AllSeriesEmpty => csv = <<>>)
    /\ [][Running => ppc' = Following(ppc)]_vars

\* C11 witness: the NO2 request raised, O3 was fetched to its target all the
\* same, and a table with rows was written
C11_Witness ==
    /\ Exported
    /\ fetched = <<"error", "target">>
    /\ df_no2 = <<>>
    /\ Len(df_o3) = ScaledTarget
    /\ Len(csv) > 0
    /\ csv = df_combined

-----------------------------------------------------------------------------
(* Properties of the aggregation *)

Aggregated == apc = "done"

InputDates == {DateOf(hourly[i].timestamp) : i \in 1..Len(hourly)}

\* the rows of the input on a date that hold a value
Measured(date) ==
    {i \in 1..Len(hourly) : DateOf(hourly[i].timestamp) = date /\ hourly[i].no2_ug_m3 # NaN}

RECURSIVE Total(_)
Total(I) ==
    IF I = {} THEN 0
    ELSE LET i == CHOOSE x \in I : TRUE IN hourly[i].no2_ug_m3 + Total(I \ {i})

Abs(x) == IF x < 0 THEN -x ELSE x

\* out has three decimals and no three-decimal number is nearer to total/count
NearestMilli(out, total, count) ==
    /\ out % RoundStep = 0
    /\ 2 * Abs(count * out - total) <= count * RoundStep

OneMeasurementPerDate ==
    /\ \A i \in 1..Len(hourly) : hourly[i].no2_ug_m3 # NaN
    /\ \A i, j \in 1..Len(hourly) :
          i # j => DateOf(hourly[i].timestamp) # DateOf(hourly[j].timestamp)

\* the value of the only row of the input on the date of output row k
InputValueOf(k) ==
    LET i == CHOOSE i \in 1..Len(hourly) :
                 DateOf(hourly[i].timestamp) = DateOf(daily_df[k].timestamp)
    IN hourly[i].no2_ug_m3

\* C10 (as claimed): on an input with one Measurement per date every output
\* value equals the input value of its date.
C10_ValuesUnchanged ==
    Aggregated /\ OneMeasurementPerDate =>
        /\ Len(daily_df) = Len(hourly)
        /\ \A k \in 1..Len(daily_df) : daily_df[k].no2_ug_m3 = InputValueOf(k)

\* C10 (amended): on an input with one Measurement per date every output
\* value is the input value of its date rounded to 3 decimals, so it equals
\* the input value when that has at most 3 decimals.
C10_ValuesRounded ==
    Aggregated /\ OneMeasurementPerDate =>
        /\ Len(daily_df) = Len(hourly)
        /\ \A k \in 1..Len(daily_df) :
              /\ NearestMilli(daily_df[k].no2_ug_m3, InputValueOf(k), 1)
              /\ InputValueOf(k) % RoundStep = 0 => daily_df[k].no2_ug_m3 = InputValueOf(k)

\* C10 witness: a daily input of two dates, one value of 3 decimals kept and
\* one of 4 decimals rounded
C10_Witness ==
    /\ Aggregated /\ OneMeasurementPerDate
    /\ hourly = <<[timestamp |-> 2, no2_ug_m3 |-> 200000],
                  [timestamp |-> 26, no2_ug_m3 |-> 12346]>>
    /\ daily_df = <<[timestamp |-> 0, no2_ug_m3 |-> 200000],
                    [timestamp |-> 24, no2_ug_m3 |-> 12350]>>

\* C13 (as claimed): every output row comes from a date on which the input
\* holds at least one value, so a date whose NO2 cells are all absent gets no
\* output row and no output row carries an absent mean.
C13_NoRowWithoutMeasurement ==
    Aggregated =>
        \A k \in 1..Len(daily_df) :
           /\ Measured(DateOf(daily_df[k].timestamp)) # {}
           /\ daily_df[k].no2_ug_m3 # NaN

=============================================================================
